---- MODULE Spec2Model ----
(***************************************************************************)
(* Model of the concentrated-liquidity pool of defi-sim                    *)
(* (src/src/concentrated-liquidity-pool.ts and                             *)
(* src/src/concentrated-liquidity-position.ts).                            *)
(*                                                                         *)
(* Numbers are exact rationals <<n, d>> in lowest terms with d > 0;        *)
(* <<1, 0>> stands for the +Infinity a JavaScript division by +0 yields.   *)
(* Prices handed to Math.sqrt are squares of rationals, so that the square *)
(* root is exact.                                                          *)
(***************************************************************************)
EXTENDS Integers, Sequences, FiniteSets, TLC

VARIABLES sqrtPrice, feeRate, positions, nextId, nTrades, last, ledger

vars == <<sqrtPrice, feeRate, positions, nextId, nTrades, last, ledger>>

(***************************************************************************)
(* Bounds of the model                                                     *)
(***************************************************************************)
\* positions ever entered, trading calls ever made, iterations of one walk
MaxPositions == 2
MaxTrades == 2
MaxSegments == 8

(***************************************************************************)
(* Exact rational arithmetic                                               *)
(***************************************************************************)
Abs(n) == IF n < 0 THEN -n ELSE n

RECURSIVE GCD(_, _)
GCD(a, b) == IF b = 0 THEN a ELSE GCD(b, a % b)

Norm(n, d) ==
  IF d = 0 THEN <<(IF n > 0 THEN 1 ELSE IF n < 0 THEN -1 ELSE 0), 0>>
  ELSE LET g == GCD(Abs(n), Abs(d))
           s == IF d < 0 THEN -1 ELSE 1
       IN <<(s * n) \div g, (s * d) \div g>>

R(n) == <<n, 1>>
Zero == <<0, 1>>
One == <<1, 1>>
Infinity == <<1, 0>>

\* denominators are reduced by their common factor before multiplying
RAdd(a, b) ==
  IF a[2] = 0 \/ b[2] = 0 THEN Norm(a[1] * b[2] + b[1] * a[2], 0)
  ELSE LET g == GCD(a[2], b[2])
       IN Norm(a[1] * (b[2] \div g) + b[1] * (a[2] \div g), (a[2] \div g) * b[2])
RNeg(a) == <<-a[1], a[2]>>
RSub(a, b) == RAdd(a, RNeg(b))
RMul(a, b) ==
  LET g1 == GCD(Abs(a[1]), Abs(b[2]))
      g2 == GCD(Abs(b[1]), Abs(a[2]))
      h1 == IF g1 = 0 THEN 1 ELSE g1
      h2 == IF g2 = 0 THEN 1 ELSE g2
  IN Norm((a[1] \div h1) * (b[1] \div h2), (a[2] \div h2) * (b[2] \div h1))
RDiv(a, b) == RMul(a, IF b[1] < 0 THEN <<-b[2], -b[1]>> ELSE <<b[2], b[1]>>)
RLt(a, b) == a[1] * b[2] < b[1] * a[2]
RLe(a, b) == a[1] * b[2] <= b[1] * a[2]
RMin(a, b) == IF RLt(b, a) THEN b ELSE a
RMax(a, b) == IF RLt(a, b) THEN b ELSE a

ISqrt(k) == CHOOSE r \in 0..k : r * r = k
\* Math.sqrt on a rational whose numerator and denominator are squares
Sqrt(v) == <<ISqrt(v[1]), ISqrt(v[2])>>

RECURSIVE RSum(_, _)
\* sum of f[i] over the finite set S
RSum(f, S) ==
  IF S = {} THEN Zero
  ELSE LET i == CHOOSE j \in S : TRUE IN RAdd(f[i], RSum(f, S \ {i}))

(***************************************************************************)
(* Inputs                                                                  *)
(***************************************************************************)
UP == "UP"
DOWN == "DOWN"
Directions == {UP, DOWN}

InitialPrices == {R(4)}
FeeRates == {Zero, <<1, 2>>}
\* <<range in price space, liquidity>>; the square roots of the ranges are
\* [1,8], [4,8] (nested in the first, above the initial price) and [2,4]
\* (adjacent to the second); the last deposit provides no liquidity
Deposits ==
  {<< <<R(1), R(64)>>, R(2) >>, << <<R(16), R(64)>>, R(1) >>, << <<R(4), R(16)>>, R(1) >>,
   << <<R(1), R(64)>>, Zero >>}
\* amounts of Y and of X: within one segment, across a boundary, more than there is
YAmounts == {R(1), R(5)}
XAmounts == {<<3, 8>>, R(1)}
TargetPrices == {R(1), R(16), R(64)}

NoBalance == [x |-> Zero, y |-> Zero]
BAdd(a, b) == [x |-> RAdd(a.x, b.x), y |-> RAdd(a.y, b.y)]
BSub(a, b) == [x |-> RSub(a.x, b.x), y |-> RSub(a.y, b.y)]

(***************************************************************************)
(* Liquidity math and position                                             *)
(***************************************************************************)
\* a plausible slip: the amounts taken at the pool's price, without the clamp
getTokenAmountsUnclamped(liquidity, sqrtRange, p) ==
  [x |-> RSub(RDiv(liquidity, p), RDiv(liquidity, sqrtRange[2])),
   y |-> RSub(RMul(liquidity, p), RMul(liquidity, sqrtRange[1]))]

getTokenAmounts(liquidity, sqrtRange, p) ==
  LET clampedSqrtPrice ==
        IF RLt(sqrtRange[2], p) THEN sqrtRange[2]
        ELSE IF RLt(p, sqrtRange[1]) THEN sqrtRange[1]
        ELSE p
  IN [x |-> RSub(RDiv(liquidity, clampedSqrtPrice), RDiv(liquidity, sqrtRange[2])),
      y |-> RSub(RMul(liquidity, clampedSqrtPrice), RMul(liquidity, sqrtRange[1]))]

\* ConcentratedLiquidityPosition.balance: evaluated at the pool's current sqrtPrice
balance(position, p) == getTokenAmounts(position.liquidity, position.sqrtRange, p)

\* ConcentratedLiquidityPosition constructor, range given in price space
NewPosition(range, liquidity) ==
  [sqrtRange |-> <<Sqrt(range[1]), Sqrt(range[2])>>,
   liquidity |-> liquidity,
   rewards |-> NoBalance]

(***************************************************************************)
(* Pool queries (pos: the positions map, p: the pool's sqrtPrice)          *)
(***************************************************************************)
getPosition(pos, id) == IF id \in DOMAIN pos THEN <<pos[id]>> ELSE <<>>

\* a plausible slip: both ends of the range closed, whatever the direction
InRangeClosed(sqrtRange, p, dir) == RLe(sqrtRange[1], p) /\ RLe(p, sqrtRange[2])

InRange(sqrtRange, p, dir) ==
  IF dir = DOWN
  THEN RLt(sqrtRange[1], p) /\ RLe(p, sqrtRange[2])
  ELSE RLe(sqrtRange[1], p) /\ RLt(p, sqrtRange[2])

getPositionsInRange(pos, p, dir) ==
  {id \in DOMAIN pos : InRange(pos[id].sqrtRange, p, dir)}

RECURSIVE SumLiquidity(_, _)
SumLiquidity(pos, S) ==
  IF S = {} THEN Zero
  ELSE LET i == CHOOSE j \in S : TRUE
       IN RAdd(pos[i].liquidity, SumLiquidity(pos, S \ {i}))

\* a plausible slip: the liquidity of every position, in range or not
getLiquidityOfAllPositions(pos, p, dir) == SumLiquidity(pos, DOMAIN pos)

getLiquidityInCurrentRange(pos, p, dir) ==
  SumLiquidity(pos, getPositionsInRange(pos, p, dir))

RECURSIVE ReduceRangeSwapped(_, _, _)
\* a plausible slip: Math.min and Math.max swapped
ReduceRangeSwapped(pos, S, acc) ==
  IF S = {} THEN acc
  ELSE LET i == CHOOSE j \in S : TRUE
           range == pos[i].sqrtRange
       IN ReduceRangeSwapped(pos, S \ {i},
            IF acc = <<>> THEN <<range>>
            ELSE << <<RMin(acc[1][1], range[1]), RMax(acc[1][2], range[2])>> >>)

RECURSIVE ReduceRange(_, _, _)
\* the reduce of getCurrentRange: acc is <<>> for null, else <<range>>
ReduceRange(pos, S, acc) ==
  IF S = {} THEN acc
  ELSE LET i == CHOOSE j \in S : TRUE
           range == pos[i].sqrtRange
       IN ReduceRange(pos, S \ {i},
            IF acc = <<>> THEN <<range>>
            ELSE << <<RMax(acc[1][1], range[1]), RMin(acc[1][2], range[2])>> >>)

\* result: err is "OutOfRange" when the code throws, else "none" and range is set
getCurrentRange(pos, p, dir) ==
  LET currentRange == ReduceRange(pos, getPositionsInRange(pos, p, dir), <<>>)
  IN IF currentRange = <<>>
     THEN [err |-> "OutOfRange", range |-> <<Zero, Zero>>]
     ELSE [err |-> "none", range |-> currentRange[1]]

getDInvSqrtPrice(p, dSqrtPrice) ==
  RDiv(RNeg(dSqrtPrice), RAdd(RMul(p, p), RMul(p, dSqrtPrice)))

getDSqrtPrice(p, dInvSqrtPrice) ==
  RMul(RNeg(dInvSqrtPrice),
       RDiv(RMul(p, p), RAdd(One, RMul(dInvSqrtPrice, p))))

\* a plausible slip: every position is credited, in range or not
addFeesToAllPositions(pos, p, feesToSplit, totalLiquidity, token, direction) ==
  [id \in DOMAIN pos |->
     LET feesForPosition == RMul(RDiv(pos[id].liquidity, totalLiquidity), feesToSplit)
     IN IF token = "x"
        THEN [pos[id] EXCEPT !.rewards.x = RAdd(@, feesForPosition)]
        ELSE [pos[id] EXCEPT !.rewards.y = RAdd(@, feesForPosition)]]

\* a plausible slip: the fee is credited in both tokens
addFeesToBothTokens(pos, p, feesToSplit, totalLiquidity, token, direction) ==
  [id \in DOMAIN pos |->
     IF id \in getPositionsInRange(pos, p, direction)
     THEN LET feesForPosition ==
                RMul(RDiv(pos[id].liquidity, totalLiquidity), feesToSplit)
          IN [pos[id] EXCEPT !.rewards.x = RAdd(@, feesForPosition),
                             !.rewards.y = RAdd(@, feesForPosition)]
     ELSE pos[id]]

addFeesToPositions(pos, p, feesToSplit, totalLiquidity, token, direction) ==
  [id \in DOMAIN pos |->
     IF id \in getPositionsInRange(pos, p, direction)
     THEN LET feesForPosition ==
                RMul(RDiv(pos[id].liquidity, totalLiquidity), feesToSplit)
          IN IF token = "x"
             THEN [pos[id] EXCEPT !.rewards.x = RAdd(@, feesForPosition)]
             ELSE [pos[id] EXCEPT !.rewards.y = RAdd(@, feesForPosition)]
     ELSE pos[id]]

\* the fee of one segment of a sell: fees * partial / remaining amount
partialFeesOfSell(fees, partial, remaining) == RDiv(RMul(fees, partial), remaining)

\* a plausible slip: the fee taken as feeRate times the base cost
partialFeesOnBase(partial, f) == RMul(partial, f)

\* the fee of one segment of a buy, added on top of what the segment costs
partialFeesOfBuy(partial, f) == RSub(RDiv(partial, RSub(One, f)), partial)

\* a plausible slip: the fee of a sell, feeRate times the amount of the segment
partialFeesOfMoveAtRate(partial, f) == RMul(partial, f)

\* the fee of one segment of movePrice
partialFeesOfMove(partial, f) == RMul(partial, RSub(RDiv(One, RSub(One, f)), One))

(***************************************************************************)
(* The segmented walks.  st is the state of one call while its loop runs:  *)
(* the pool's sqrtPrice and positions as mutated so far, the local dX and  *)
(* dY, the segments completed (segs) and the error thrown, if any.  A walk  *)
(* still running after MaxSegments iterations is cut off as "Unfinished".  *)
(***************************************************************************)
StartWalk(p, pos, dX, dY) ==
  [sqrtPrice |-> p, positions |-> pos, dX |-> dX, dY |-> dY,
   segs |-> <<>>, err |-> "none"]

\* what one loop iteration did: consumed is the part of the remaining amount it used
Segment(st, dir, liquidity, dSqrtPrice, token, fee, consumed, after) ==
  [start |-> st.sqrtPrice, dir |-> dir, liquidity |-> liquidity,
   dSqrtPrice |-> dSqrtPrice, token |-> token, fee |-> fee,
   consumed |-> consumed, before |-> st.positions, after |-> after]

RECURSIVE sellYLoop(_, _)
sellYLoop(st, fees) ==
  IF ~RLt(Zero, st.dY) THEN st
  ELSE IF Len(st.segs) >= MaxSegments THEN [st EXCEPT !.err = "Unfinished"]
  ELSE
    LET cr == getCurrentRange(st.positions, st.sqrtPrice, UP)
        liquidity == getLiquidityInCurrentRange(st.positions, st.sqrtPrice, UP)
    IN IF cr.err # "none" THEN [st EXCEPT !.err = cr.err]
       ELSE IF liquidity = Zero THEN [st EXCEPT !.err = "NotEnoughLiquidity"]
       ELSE
         LET dSqrtPrice == RMin(RDiv(st.dY, liquidity), RSub(cr.range[2], st.sqrtPrice))
             dYPartial == RMul(dSqrtPrice, liquidity)
             dXPartial == RMul(liquidity, getDInvSqrtPrice(st.sqrtPrice, dSqrtPrice))
             partialFees == partialFeesOfSell(fees, dYPartial, st.dY)
             after == addFeesToPositions(st.positions, st.sqrtPrice, partialFees,
                                         liquidity, "y", UP)
         IN sellYLoop([st EXCEPT
                         !.positions = after,
                         !.dX = RAdd(@, dXPartial),
                         !.dY = RSub(@, dYPartial),
                         !.sqrtPrice = RAdd(@, dSqrtPrice),
                         !.segs = Append(@, Segment(st, UP, liquidity, dSqrtPrice,
                                                    "y", partialFees, dYPartial, after))],
                      fees)

RECURSIVE buyYLoop(_, _)
buyYLoop(st, f) ==
  IF ~RLt(st.dY, Zero) THEN st
  ELSE IF Len(st.segs) >= MaxSegments THEN [st EXCEPT !.err = "Unfinished"]
  ELSE
    LET cr == getCurrentRange(st.positions, st.sqrtPrice, DOWN)
        liquidity == getLiquidityInCurrentRange(st.positions, st.sqrtPrice, DOWN)
    IN IF cr.err # "none" THEN [st EXCEPT !.err = cr.err]
       ELSE IF liquidity = Zero THEN [st EXCEPT !.err = "NotEnoughLiquidity"]
       ELSE
         LET dSqrtPrice == RMax(RDiv(st.dY, liquidity), RSub(cr.range[1], st.sqrtPrice))
             dYPartial == RMul(dSqrtPrice, liquidity)
             dXPartial == RMul(liquidity, getDInvSqrtPrice(st.sqrtPrice, dSqrtPrice))
             partialFees == partialFeesOfBuy(dXPartial, f)
             after == addFeesToPositions(st.positions, st.sqrtPrice, partialFees,
                                         liquidity, "x", DOWN)
         IN buyYLoop([st EXCEPT
                        !.positions = after,
                        !.dX = RAdd(@, RAdd(dXPartial, partialFees)),
                        !.dY = RSub(@, dYPartial),
                        !.sqrtPrice = RAdd(@, dSqrtPrice),
                        !.segs = Append(@, Segment(st, DOWN, liquidity, dSqrtPrice,
                                                   "x", partialFees, dYPartial, after))],
                     f)

RECURSIVE sellXLoop(_, _)
sellXLoop(st, fees) ==
  IF ~RLt(Zero, st.dX) THEN st
  ELSE IF Len(st.segs) >= MaxSegments THEN [st EXCEPT !.err = "Unfinished"]
  ELSE
    LET cr == getCurrentRange(st.positions, st.sqrtPrice, DOWN)
        liquidity == getLiquidityInCurrentRange(st.positions, st.sqrtPrice, DOWN)
    IN IF cr.err # "none" THEN [st EXCEPT !.err = cr.err]
       ELSE IF liquidity = Zero THEN [st EXCEPT !.err = "NotEnoughLiquidity"]
       ELSE
         LET dSqrtPrice == RMax(getDSqrtPrice(st.sqrtPrice, RDiv(st.dX, liquidity)),
                                RSub(cr.range[1], st.sqrtPrice))
             dYPartial == RMul(dSqrtPrice, liquidity)
             dXPartial == RMul(liquidity, getDInvSqrtPrice(st.sqrtPrice, dSqrtPrice))
             partialFees == partialFeesOfSell(fees, dXPartial, st.dX)
             after == addFeesToPositions(st.positions, st.sqrtPrice, partialFees,
                                         liquidity, "x", DOWN)
         IN sellXLoop([st EXCEPT
                         !.positions = after,
                         !.dX = RSub(@, dXPartial),
                         !.dY = RAdd(@, dYPartial),
                         !.sqrtPrice = RAdd(@, dSqrtPrice),
                         !.segs = Append(@, Segment(st, DOWN, liquidity, dSqrtPrice,
                                                    "x", partialFees, dXPartial, after))],
                      fees)

RECURSIVE buyXLoop(_, _)
buyXLoop(st, f) ==
  IF ~RLt(st.dX, Zero) THEN st
  ELSE IF Len(st.segs) >= MaxSegments THEN [st EXCEPT !.err = "Unfinished"]
  ELSE
    LET cr == getCurrentRange(st.positions, st.sqrtPrice, UP)
        liquidity == getLiquidityInCurrentRange(st.positions, st.sqrtPrice, UP)
    IN IF cr.err # "none" THEN [st EXCEPT !.err = cr.err]
       ELSE IF liquidity = Zero THEN [st EXCEPT !.err = "NotEnoughLiquidity"]
       ELSE
         LET dSqrtPrice == RMin(getDSqrtPrice(st.sqrtPrice, RDiv(st.dX, liquidity)),
                                RSub(cr.range[2], st.sqrtPrice))
             dYPartial == RMul(dSqrtPrice, liquidity)
             dXPartial == RMul(liquidity, getDInvSqrtPrice(st.sqrtPrice, dSqrtPrice))
             partialFees == partialFeesOfBuy(dYPartial, f)
             after == addFeesToPositions(st.positions, st.sqrtPrice, partialFees,
                                         liquidity, "y", UP)
         IN buyXLoop([st EXCEPT
                        !.positions = after,
                        !.dY = RAdd(@, RAdd(dYPartial, partialFees)),
                        !.dX = RSub(@, dXPartial),
                        !.sqrtPrice = RAdd(@, dSqrtPrice),
                        !.segs = Append(@, Segment(st, UP, liquidity, dSqrtPrice,
                                                   "y", partialFees, dXPartial, after))],
                     f)

RECURSIVE movePriceLoop(_, _, _)
movePriceLoop(st, sqrtTargetPrice, f) ==
  LET dSqrtPrice == RSub(sqrtTargetPrice, st.sqrtPrice)
      dir == IF RLt(dSqrtPrice, Zero) THEN DOWN ELSE UP
  IN IF dSqrtPrice = Zero THEN st
     ELSE IF Len(st.segs) >= MaxSegments THEN [st EXCEPT !.err = "Unfinished"]
     ELSE
       LET cr == getCurrentRange(st.positions, st.sqrtPrice, dir)
           liquidity == getLiquidityInCurrentRange(st.positions, st.sqrtPrice, dir)
       IN IF cr.err # "none" THEN [st EXCEPT !.err = cr.err]
          ELSE IF liquidity = Zero THEN [st EXCEPT !.err = "NotEnoughLiquidity"]
          ELSE
            LET nextSqrtPrice ==
                  IF RLt(Zero, dSqrtPrice)
                  THEN RMin(cr.range[2], RAdd(st.sqrtPrice, dSqrtPrice))
                  ELSE RMax(cr.range[1], RAdd(st.sqrtPrice, dSqrtPrice))
                dSqrtPricePartial == RSub(nextSqrtPrice, st.sqrtPrice)
                dYPartial == RMul(liquidity, dSqrtPricePartial)
                dXPartial == RMul(liquidity,
                                  getDInvSqrtPrice(st.sqrtPrice, dSqrtPricePartial))
                partialFees ==
                  partialFeesOfMove(IF RLt(Zero, dSqrtPrice) THEN dYPartial ELSE dXPartial, f)
                token == IF RLt(Zero, dSqrtPrice) THEN "y" ELSE "x"
                after == addFeesToPositions(st.positions, st.sqrtPrice, partialFees,
                                            liquidity, token, dir)
            IN movePriceLoop(
                 [st EXCEPT
                    !.positions = after,
                    !.dX = RAdd(@, RAdd(dXPartial,
                                        IF RLt(Zero, dSqrtPrice) THEN Zero ELSE partialFees)),
                    !.dY = RAdd(@, RAdd(dYPartial,
                                        IF RLt(dSqrtPrice, Zero) THEN Zero ELSE partialFees)),
                    !.sqrtPrice = nextSqrtPrice,
                    !.segs = Append(@, Segment(st, dir, liquidity, dSqrtPricePartial,
                                               token, partialFees, dSqrtPricePartial, after))],
                 sqrtTargetPrice, f)

(***************************************************************************)
(* The calls as functions of the pool state: the walk's final state plus   *)
(* the value returned (ret, meaningful when err = "none").                 *)
(***************************************************************************)
Outcome(st, ret) ==
  [sqrtPrice |-> st.sqrtPrice, positions |-> st.positions, segs |-> st.segs,
   err |-> st.err, ret |-> ret]

sellY(p, pos, f, yWithFees) ==
  IF RLe(yWithFees, Zero)
  THEN Outcome([StartWalk(p, pos, Zero, Zero) EXCEPT !.err = "NegativeAmount"], Zero)
  ELSE LET fees == RMul(yWithFees, f)
           st == sellYLoop(StartWalk(p, pos, Zero, RSub(yWithFees, fees)), fees)
       IN Outcome(st, RNeg(st.dX))

buyY(p, pos, f, yDesired) ==
  IF RLe(yDesired, Zero)
  THEN Outcome([StartWalk(p, pos, Zero, Zero) EXCEPT !.err = "NegativeAmount"], Zero)
  ELSE LET st == buyYLoop(StartWalk(p, pos, Zero, RNeg(yDesired)), f)
       IN Outcome(st, st.dX)

sellX(p, pos, f, xWithFees) ==
  IF RLe(xWithFees, Zero)
  THEN Outcome([StartWalk(p, pos, Zero, Zero) EXCEPT !.err = "NegativeAmount"], Zero)
  ELSE LET fees == RMul(xWithFees, f)
           st == sellXLoop(StartWalk(p, pos, RSub(xWithFees, fees), Zero), fees)
       IN Outcome(st, RNeg(st.dY))

\* a plausible slip: the guard on the amount left out
buyXUnguarded(p, pos, f, xDesired) ==
  LET st == buyXLoop(StartWalk(p, pos, RNeg(xDesired), Zero), f)
  IN Outcome(st, st.dY)

buyX(p, pos, f, xDesired) ==
  IF RLe(xDesired, Zero)
  THEN Outcome([StartWalk(p, pos, Zero, Zero) EXCEPT !.err = "NegativeAmount"], Zero)
  ELSE LET st == buyXLoop(StartWalk(p, pos, RNeg(xDesired), Zero), f)
       IN Outcome(st, st.dY)

\* a plausible slip: the move ends where the current range ends
movePriceWithinRange(p, pos, f, targetPrice) ==
  LET sqrtTargetPrice == Sqrt(targetPrice)
      dir == IF RLt(sqrtTargetPrice, p) THEN DOWN ELSE UP
      cr == getCurrentRange(pos, p, dir)
      stop == IF cr.err # "none" THEN sqrtTargetPrice
              ELSE IF dir = UP THEN RMin(cr.range[2], sqrtTargetPrice)
              ELSE RMax(cr.range[1], sqrtTargetPrice)
      st == movePriceLoop(StartWalk(p, pos, Zero, Zero), stop, f)
  IN Outcome(st, [x |-> st.dX, y |-> st.dY])

\* ret is the returned delta {x, y}
movePrice(p, pos, f, targetPrice) ==
  LET sqrtTargetPrice == Sqrt(targetPrice)
  IN IF p = sqrtTargetPrice
     THEN Outcome(StartWalk(p, pos, Zero, Zero), NoBalance)
     ELSE LET st == movePriceLoop(StartWalk(p, pos, Zero, Zero), sqrtTargetPrice, f)
          IN Outcome(st, [x |-> st.dX, y |-> st.dY])

\* enterPosition with a liquidity: the new position is registered under a
\* fresh id
enterPosition(pos, id, range, liquidity) == (id :> NewPosition(range, liquidity)) @@ pos

\* a plausible slip: the funds are returned and the position stays registered
exitPositionKeepingIt(p, pos, id) ==
  IF id \notin DOMAIN pos
  THEN [positions |-> pos, segs |-> <<>>, err |-> "NotFound", ret |-> NoBalance]
  ELSE [positions |-> pos, segs |-> <<>>, err |-> "none",
        ret |-> BAdd(balance(pos[id], p), pos[id].rewards)]

exitPosition(p, pos, id) ==
  IF id \notin DOMAIN pos
  THEN [positions |-> pos, segs |-> <<>>, err |-> "NotFound", ret |-> NoBalance]
  ELSE [positions |-> [i \in DOMAIN pos \ {id} |-> pos[i]], segs |-> <<>>,
        err |-> "none",
        ret |-> [x |-> RAdd(balance(pos[id], p).x, pos[id].rewards.x),
                 y |-> RAdd(balance(pos[id], p).y, pos[id].rewards.y)]]

(***************************************************************************)
(* State machine.                                                          *)
(*   positions : id -> position, the pool's Map                            *)
(*   nextId    : the next fresh id (ids are never reused)                  *)
(*   last      : the last call: its name, argument, the pool before it,    *)
(*               the segments it walked, its error and its return value    *)
(*   ledger    : per token, what was entered, what traders and price moves *)
(*               paid in net of what they took out, what was exited; and   *)
(*               whether every trade so far succeeded and left the price   *)
(*               inside the union of the live ranges                       *)
(***************************************************************************)
Pool(p, pos) == [sqrtPrice |-> p, positions |-> pos]

Call(op, arg, out) ==
  [op |-> op, arg |-> arg, pre |-> Pool(sqrtPrice, positions),
   segs |-> out.segs, err |-> out.err, ret |-> out.ret]

InUnion(p, pos) ==
  \E id \in DOMAIN pos : RLe(pos[id].sqrtRange[1], p) /\ RLe(p, pos[id].sqrtRange[2])

Init ==
  /\ \E initialPrice \in InitialPrices : sqrtPrice = Sqrt(initialPrice)
  /\ feeRate \in FeeRates
  /\ positions = <<>>
  /\ nextId = 1
  /\ nTrades = 0
  /\ last = [op |-> "new", arg |-> Zero, pre |-> Pool(Zero, <<>>),
             segs |-> <<>>, err |-> "none", ret |-> Zero]
  /\ ledger = [entered |-> NoBalance, traded |-> NoBalance, exited |-> NoBalance,
               inside |-> TRUE]

EnterPosition(range, liquidity) ==
  /\ nextId <= MaxPositions
  /\ positions' = enterPosition(positions, nextId, range, liquidity)
  /\ ledger' = [ledger EXCEPT !.entered = BAdd(@, balance(positions'[nextId], sqrtPrice))]
  /\ last' = Call("enterPosition", <<range, liquidity>>,
                  [segs |-> <<>>, err |-> "none", ret |-> nextId])
  /\ nextId' = nextId + 1
  /\ UNCHANGED <<sqrtPrice, feeRate, nTrades>>

ExitPosition(id) ==
  LET out == exitPosition(sqrtPrice, positions, id)
  IN /\ positions' = out.positions
     /\ last' = Call("exitPosition", id, out)
     /\ ledger' = [ledger EXCEPT
                     !.exited = IF out.err = "none" THEN BAdd(@, out.ret) ELSE @]
     /\ UNCHANGED <<sqrtPrice, feeRate, nextId, nTrades>>

\* a plausible slip: a call that throws puts the pool back as it was
TradeRolledBack(op, arg, out, paid) ==
  /\ nTrades < MaxTrades
  /\ nTrades' = nTrades + 1
  /\ sqrtPrice' = IF out.err = "none" THEN out.sqrtPrice ELSE sqrtPrice
  /\ positions' = IF out.err = "none" THEN out.positions ELSE positions
  /\ last' = Call(op, arg, out)
  /\ ledger' = [ledger EXCEPT
                  !.traded = IF out.err = "none" THEN BAdd(@, paid) ELSE @,
                  !.inside = @ /\ out.err = "none"
                               /\ InUnion(out.sqrtPrice, out.positions)]
  /\ UNCHANGED <<feeRate, nextId>>

\* the part common to the five trading calls: the pool keeps what the walk did
Trade(op, arg, out, paid) ==
  /\ nTrades < MaxTrades
  /\ nTrades' = nTrades + 1
  /\ sqrtPrice' = out.sqrtPrice
  /\ positions' = out.positions
  /\ last' = Call(op, arg, out)
  /\ ledger' = [ledger EXCEPT
                  !.traded = IF out.err = "none" THEN BAdd(@, paid) ELSE @,
                  !.inside = @ /\ out.err = "none"
                               /\ InUnion(out.sqrtPrice, out.positions)]
  /\ UNCHANGED <<feeRate, nextId>>

SellY(a) ==
  LET out == sellY(sqrtPrice, positions, feeRate, a)
  IN Trade("sellY", a, out, [x |-> RNeg(out.ret), y |-> a])

BuyY(a) ==
  LET out == buyY(sqrtPrice, positions, feeRate, a)
  IN Trade("buyY", a, out, [x |-> out.ret, y |-> RNeg(a)])

SellX(a) ==
  LET out == sellX(sqrtPrice, positions, feeRate, a)
  IN Trade("sellX", a, out, [x |-> a, y |-> RNeg(out.ret)])

BuyX(a) ==
  LET out == buyX(sqrtPrice, positions, feeRate, a)
  IN Trade("buyX", a, out, [x |-> RNeg(a), y |-> out.ret])

MovePrice(targetPrice) ==
  LET out == movePrice(sqrtPrice, positions, feeRate, targetPrice)
  IN Trade("movePrice", targetPrice, out, out.ret)

Next ==
  \/ \E d \in Deposits : EnterPosition(d[1], d[2])
  \/ \E id \in 1..MaxPositions : ExitPosition(id)
  \/ \E a \in YAmounts : SellY(a)
  \/ \E a \in YAmounts : BuyY(a)
  \/ \E a \in XAmounts : SellX(a)
  \/ \E a \in XAmounts : BuyX(a)
  \/ \E targetPrice \in TargetPrices : MovePrice(targetPrice)

Spec == Init /\ [][Next]_vars

(***************************************************************************)
(* The same pool driven by callers that also pass what the design calls    *)
(* invalid: trade amounts that are not positive, and ranges that are       *)
(* empty, inverted, or start at 0.  The range that starts at 0 carries no  *)
(* liquidity, so that no walk reaches the price 0.                         *)
(***************************************************************************)
InvalidDeposits ==
  {<< <<R(16), R(16)>>, R(1) >>, << <<R(16), R(4)>>, R(1) >>, << <<R(0), R(1)>>, Zero >>}
NonPositiveAmounts == {Zero, R(-1)}
SomeDeposits == {<< <<R(1), R(64)>>, R(2) >>, << <<R(4), R(16)>>, R(1) >>}
SomeAmounts == {R(1)}

NextAnyInput ==
  \/ \E d \in SomeDeposits \cup InvalidDeposits : EnterPosition(d[1], d[2])
  \/ \E id \in 1..MaxPositions : ExitPosition(id)
  \/ \E a \in SomeAmounts \cup NonPositiveAmounts : SellY(a)
  \/ \E a \in SomeAmounts \cup NonPositiveAmounts : BuyY(a)
  \/ \E a \in SomeAmounts \cup NonPositiveAmounts : SellX(a)
  \/ \E a \in SomeAmounts \cup NonPositiveAmounts : BuyX(a)
  \/ MovePrice(R(16))

SpecAnyInput == Init /\ [][NextAnyInput]_vars

(***************************************************************************)
(* The pool with its queries as steps of their own: a query is recorded in *)
(* last, with the value it returned, and assigns nothing.                  *)
(***************************************************************************)
Queries ==
  {"getPosition", "getPositionsInRange", "getLiquidityInCurrentRange", "getCurrentRange"}

Query(op, arg, ret, err) ==
  /\ last' = Call(op, arg, [segs |-> <<>>, err |-> err, ret |-> ret])
  /\ UNCHANGED <<sqrtPrice, feeRate, positions, nextId, nTrades, ledger>>

GetPosition(id) == Query("getPosition", id, getPosition(positions, id), "none")

GetPositionsInRange(dir) ==
  Query("getPositionsInRange", dir, getPositionsInRange(positions, sqrtPrice, dir), "none")

GetLiquidityInCurrentRange(dir) ==
  Query("getLiquidityInCurrentRange", dir,
        getLiquidityInCurrentRange(positions, sqrtPrice, dir), "none")

GetCurrentRange(dir) ==
  LET r == getCurrentRange(positions, sqrtPrice, dir)
  IN Query("getCurrentRange", dir, r.range, r.err)

SomeTargetPrices == {R(1), R(64)}

NextWithQueries ==
  \/ \E d \in SomeDeposits : EnterPosition(d[1], d[2])
  \/ \E id \in 1..MaxPositions : ExitPosition(id)
  \/ \E a \in YAmounts : SellY(a)
  \/ \E a \in SomeAmounts : BuyY(a)
  \/ \E a \in SomeAmounts : SellX(a)
  \/ \E a \in SomeAmounts : BuyX(a)
  \/ \E targetPrice \in SomeTargetPrices : MovePrice(targetPrice)
  \/ \E id \in 1..MaxPositions : GetPosition(id)
  \/ \E dir \in Directions : GetPositionsInRange(dir)
  \/ \E dir \in Directions : GetLiquidityInCurrentRange(dir)
  \/ \E dir \in Directions : GetCurrentRange(dir)

SpecWithQueries == Init /\ [][NextWithQueries]_vars

(***************************************************************************)
(* Vocabulary of the properties                                            *)
(***************************************************************************)
Sells == {"sellY", "sellX"}
Buys == {"buyY", "buyX"}
Ok == last.err = "none"

\* the token in which a call pays its fee
FeeToken(op) == IF op \in {"sellY", "buyX"} THEN "y" ELSE "x"

\* the positions that pass the directional membership test, written out
Covering(pos, p, dir) ==
  {id \in DOMAIN pos :
     LET lo == pos[id].sqrtRange[1]
         hi == pos[id].sqrtRange[2]
     IN IF dir = UP THEN RLe(lo, p) /\ RLt(p, hi) ELSE RLt(lo, p) /\ RLe(p, hi)}

RewardsOf(pos, token) ==
  RSum([id \in DOMAIN pos |-> pos[id].rewards[token]], DOMAIN pos)

\* what the last call added to the rewards in the given token, over all positions
Credited(token) == RSub(RewardsOf(positions, token), RewardsOf(last.pre.positions, token))

\* C1: once every position is exited after a run of successful calls that
\* kept the price inside the union of the ranges, the exited amounts equal,
\* token by token, the balances at entry plus what traders paid in, minus
\* what they took out, plus the deltas of movePrice.
C1_Conservation ==
  (positions = <<>> /\ nextId > 1 /\ ledger.inside)
    => ledger.exited = BAdd(ledger.entered, ledger.traded)

\* C2: a successful sell of amount a at fee rate f adds exactly a*f to the
\* rewards in the sold token, over all positions, and each segment credits
\* the share of a*f that its part of the fee-exclusive amount represents.
C2_SellFeeTotal ==
  (last.op \in Sells /\ Ok)
    => LET fees == RMul(last.arg, feeRate)
           total == RSub(last.arg, fees)
       IN /\ Credited(FeeToken(last.op)) = fees
          /\ \A i \in 1..Len(last.segs) :
               last.segs[i].fee = RDiv(RMul(fees, last.segs[i].consumed), total)

\* the last buy, run again on the pool as it was, by a pool that charges no fee
FeeFreeBuy ==
  IF last.op = "buyY"
  THEN buyY(last.pre.sqrtPrice, last.pre.positions, Zero, last.arg)
  ELSE buyX(last.pre.sqrtPrice, last.pre.positions, Zero, last.arg)

\* C3: a successful buy at fee rate f returns baseCost / (1 - f), baseCost
\* being the charge of the same pool without fee, ends at the price the
\* fee-free pool ends at, and adds exactly payment * f to the rewards in the
\* paid token, over all positions.
C3_BuyFee ==
  (last.op \in Buys /\ Ok)
    => /\ FeeFreeBuy.err = "none"
       /\ last.ret = RDiv(FeeFreeBuy.ret, RSub(One, feeRate))
       /\ sqrtPrice = FeeFreeBuy.sqrtPrice
       /\ Credited(FeeToken(last.op)) = RMul(last.ret, feeRate)

\* a successful buy with a fee that walked more than one segment
C3_Witness ==
  /\ last.op \in Buys /\ Ok
  /\ feeRate # Zero
  /\ Len(last.segs) >= 2
  /\ Credited(FeeToken(last.op)) # Zero

\* C4: in every segment of a trade or price move, each position that passes
\* the directional membership test at the segment's starting price is
\* credited liquidity_i / totalLiquidity of the segment's fee, in the fee
\* token only, the credits of the segment add up to its fee, and every other
\* position is left as it was.
C4_FeeSplit ==
  \A i \in 1..Len(last.segs) :
    LET seg == last.segs[i]
        other == IF seg.token = "x" THEN "y" ELSE "x"
        inRange == Covering(seg.before, seg.start, seg.dir)
    IN /\ DOMAIN seg.after = DOMAIN seg.before
       /\ \A id \in DOMAIN seg.before :
            IF id \in inRange
            THEN /\ seg.after[id].rewards[seg.token] =
                      RAdd(seg.before[id].rewards[seg.token],
                           RMul(RDiv(seg.before[id].liquidity, seg.liquidity), seg.fee))
                 /\ seg.after[id].rewards[other] = seg.before[id].rewards[other]
                 /\ seg.after[id].liquidity = seg.before[id].liquidity
                 /\ seg.after[id].sqrtRange = seg.before[id].sqrtRange
            ELSE seg.after[id] = seg.before[id]
       /\ RSub(RewardsOf(seg.after, seg.token), RewardsOf(seg.before, seg.token)) = seg.fee

\* a call with a segment that splits a fee between two positions of
\* different liquidity, and an upward segment that starts where a position's
\* range ends and leaves that position out
C4_Witness ==
  /\ \E i \in 1..Len(last.segs) :
       LET seg == last.segs[i]
       IN /\ seg.fee # Zero
          /\ \E a, b \in Covering(seg.before, seg.start, seg.dir) :
               /\ seg.before[a].liquidity # seg.before[b].liquidity
               /\ seg.after[a].rewards # seg.before[a].rewards
               /\ seg.after[b].rewards # seg.before[b].rewards
  /\ \E j \in 1..Len(last.segs) :
       LET seg == last.segs[j]
       IN /\ seg.fee # Zero /\ seg.dir = UP
          /\ \E id \in DOMAIN seg.before :
               /\ seg.before[id].sqrtRange[2] = seg.start
               /\ seg.after[id] = seg.before[id]

\* the amount of the bought token that the only position of the pool held
\* before the last call
HeldByTheOnlyPosition ==
  LET id == CHOOSE i \in DOMAIN last.pre.positions : TRUE
      held == balance(last.pre.positions[id], last.pre.sqrtPrice)
  IN IF last.op = "buyY" THEN held.y ELSE held.x

\* C5: a buy of more than the pool's single position holds of the bought
\* token returns nothing and fails with the InsufficientLiquidity error
\* ("Not enough liquidity."), not the OutOfRange error of getCurrentRange.
C5_InsufficientLiquidity ==
  (/\ last.op \in Buys
   /\ Cardinality(DOMAIN last.pre.positions) = 1
   /\ RLt(HeldByTheOnlyPosition, last.arg))
    => last.err = "NotEnoughLiquidity"

\* the trade that undoes the last sell: buying back the amount sold
BuyBack ==
  IF last.op = "sellY"
  THEN buyY(sqrtPrice, positions, feeRate, last.arg)
  ELSE buyX(sqrtPrice, positions, feeRate, last.arg)

\* C6: without fee, a sell of a that is immediately followed by a buy of a,
\* both successful, brings sqrtPrice back to where it was, and the buy costs
\* what the sell returned; and selling the Y that a sellX(a) returned gives
\* a back.
C6_RoundTrip ==
  (last.op \in Sells /\ Ok /\ feeRate = Zero)
    => /\ BuyBack.err = "none"
          => /\ BuyBack.sqrtPrice = last.pre.sqrtPrice
             /\ BuyBack.ret = last.ret
       /\ (last.op = "sellX" /\ RLt(Zero, last.ret))
          => LET back == sellY(sqrtPrice, positions, feeRate, last.ret)
             IN back.err = "none"
                  => back.ret = last.arg /\ back.sqrtPrice = last.pre.sqrtPrice

\* C7: exitPosition(id) of a registered id returns the position's balance at
\* the current sqrtPrice plus its rewards, removes that position and nothing
\* else, and leaves the price alone; the id is absent afterwards, and
\* exitPosition of an id that is not registered (never issued, or exited
\* before) fails with NotFound and changes nothing.
C7_ExitOnce ==
  /\ \A id \in DOMAIN positions : id < nextId
  /\ last.op = "exitPosition"
       => IF last.arg \in DOMAIN last.pre.positions
          THEN LET position == last.pre.positions[last.arg]
                   held == getTokenAmounts(position.liquidity, position.sqrtRange,
                                           last.pre.sqrtPrice)
               IN /\ Ok
                  /\ last.ret = [x |-> RAdd(held.x, position.rewards.x),
                                 y |-> RAdd(held.y, position.rewards.y)]
                  /\ DOMAIN positions = DOMAIN last.pre.positions \ {last.arg}
                  /\ \A id \in DOMAIN positions : positions[id] = last.pre.positions[id]
                  /\ sqrtPrice = last.pre.sqrtPrice
                  /\ getPosition(positions, last.arg) = <<>>
          ELSE /\ last.err = "NotFound"
               /\ positions = last.pre.positions
               /\ sqrtPrice = last.pre.sqrtPrice

\* a second exitPosition of an id whose funds were withdrawn before, while
\* another position that has earned rewards is still in the pool
C7_Witness ==
  /\ last.op = "exitPosition" /\ last.err = "NotFound"
  /\ last.arg < nextId
  /\ ledger.exited # NoBalance
  /\ \E id \in DOMAIN positions : positions[id].rewards # NoBalance

\* C8: getCurrentRange(dir) is [the largest lower bound, the smallest upper
\* bound] of the positions in range for dir and of no other position, it
\* contains the price (lo <= p < hi for UP, lo < p <= hi for DOWN), it fails
\* with OutOfRange when no position is in range, and entering a position
\* changes it only by intersecting it with the new range if that range
\* covers the price.
C8_CurrentRange ==
  \A dir \in Directions :
    LET inRange == Covering(positions, sqrtPrice, dir)
        r == getCurrentRange(positions, sqrtPrice, dir)
        was == getCurrentRange(last.pre.positions, last.pre.sqrtPrice, dir)
    IN /\ IF inRange = {}
          THEN r.err = "OutOfRange"
          ELSE /\ r.err = "none"
               /\ \E id \in inRange : r.range[1] = positions[id].sqrtRange[1]
               /\ \A id \in inRange : RLe(positions[id].sqrtRange[1], r.range[1])
               /\ \E id \in inRange : r.range[2] = positions[id].sqrtRange[2]
               /\ \A id \in inRange : RLe(r.range[2], positions[id].sqrtRange[2])
               /\ IF dir = UP
                  THEN RLe(r.range[1], sqrtPrice) /\ RLt(sqrtPrice, r.range[2])
                  ELSE RLt(r.range[1], sqrtPrice) /\ RLe(sqrtPrice, r.range[2])
       /\ (last.op = "enterPosition" /\ was.err = "none")
            => LET new == positions[last.ret].sqrtRange
               IN /\ r.err = "none"
                  /\ r.range = IF last.ret \in inRange
                               THEN <<RMax(was.range[1], new[1]), RMin(was.range[2], new[2])>>
                               ELSE was.range

\* a narrower covering position has just been entered and has shrunk the
\* current range on both sides
C8_Witness ==
  /\ last.op = "enterPosition"
  /\ LET r == getCurrentRange(positions, sqrtPrice, UP)
         was == getCurrentRange(last.pre.positions, last.pre.sqrtPrice, UP)
     IN /\ was.err = "none" /\ r.err = "none"
        /\ RLt(was.range[1], r.range[1])
        /\ RLt(r.range[2], was.range[2])
        /\ Cardinality(Covering(positions, sqrtPrice, UP)) = 2

\* C9: getPositionsInRange(UP) is exactly the positions with
\* lo <= sqrtPrice < hi and getPositionsInRange(DOWN) exactly those with
\* lo < sqrtPrice <= hi; when the price is on the boundary shared by two
\* adjacent positions, UP counts the upper one only and DOWN the lower one
\* only.
C9_Membership ==
  /\ \A dir \in Directions :
       getPositionsInRange(positions, sqrtPrice, dir) = Covering(positions, sqrtPrice, dir)
  /\ \A lower, upper \in DOMAIN positions :
       (/\ positions[lower].sqrtRange[2] = sqrtPrice
        /\ positions[upper].sqrtRange[1] = sqrtPrice
        /\ RLt(positions[lower].sqrtRange[1], sqrtPrice)
        /\ RLt(sqrtPrice, positions[upper].sqrtRange[2]))
         => /\ upper \in getPositionsInRange(positions, sqrtPrice, UP)
            /\ lower \notin getPositionsInRange(positions, sqrtPrice, UP)
            /\ lower \in getPositionsInRange(positions, sqrtPrice, DOWN)
            /\ upper \notin getPositionsInRange(positions, sqrtPrice, DOWN)

\* the price stands on the boundary that two adjacent live positions share
C9_Witness ==
  \E lower, upper \in DOMAIN positions :
    /\ positions[lower].sqrtRange[2] = sqrtPrice
    /\ positions[upper].sqrtRange[1] = sqrtPrice
    /\ positions[lower].liquidity # Zero
    /\ positions[upper].liquidity # Zero
    /\ getPositionsInRange(positions, sqrtPrice, UP) = {upper}
    /\ getPositionsInRange(positions, sqrtPrice, DOWN) = {lower}

\* C10: getLiquidityInCurrentRange(dir) is the sum of the liquidity of the
\* positions in range for dir, 0 when there is none; entering a position
\* raises it by that position's liquidity if the position is in range (so a
\* second identical deposit doubles it), and exiting one lowers it by that
\* position's liquidity.
C10_LiquidityInRange ==
  \A dir \in Directions :
    LET inRange == Covering(positions, sqrtPrice, dir)
        now == getLiquidityInCurrentRange(positions, sqrtPrice, dir)
        was == getLiquidityInCurrentRange(last.pre.positions, last.pre.sqrtPrice, dir)
    IN /\ now = RSum([id \in inRange |-> positions[id].liquidity], inRange)
       /\ inRange = {} => now = Zero
       /\ (last.op = "enterPosition")
            => now = IF last.ret \in inRange
                     THEN RAdd(was, positions[last.ret].liquidity)
                     ELSE was
       /\ (last.op = "exitPosition" /\ Ok)
            => now = IF last.arg \in Covering(last.pre.positions, last.pre.sqrtPrice, dir)
                     THEN RSub(was, last.pre.positions[last.arg].liquidity)
                     ELSE was

\* a second deposit with the range and liquidity of the first has just been
\* entered and has doubled the liquidity in range
C10_Witness ==
  /\ last.op = "enterPosition"
  /\ Cardinality(DOMAIN positions) = 2
  /\ \A i, j \in DOMAIN positions :
       /\ positions[i].sqrtRange = positions[j].sqrtRange
       /\ positions[i].liquidity = positions[j].liquidity
  /\ LET now == getLiquidityInCurrentRange(positions, sqrtPrice, UP)
         was == getLiquidityInCurrentRange(last.pre.positions, last.pre.sqrtPrice, UP)
     IN was # Zero /\ now = RMul(R(2), was)

Trades == {"sellY", "buyY", "sellX", "buyX", "movePrice"}

\* C11: a live position with liquidity L and sqrt-range [lo, hi] holds
\* x = 0, y = L*(hi - lo) whenever sqrtPrice >= hi and y = 0,
\* x = L*(1/lo - 1/hi) whenever sqrtPrice <= lo; so a call that starts at or
\* beyond a boundary of the position and moves the price further away from
\* its range leaves its balance as it was.
C11_BoundaryExhaustion ==
  \A id \in DOMAIN positions :
    LET L == positions[id].liquidity
        lo == positions[id].sqrtRange[1]
        hi == positions[id].sqrtRange[2]
        held == balance(positions[id], sqrtPrice)
        was == balance(positions[id], last.pre.sqrtPrice)
    IN /\ RLe(hi, sqrtPrice) => held = [x |-> Zero, y |-> RMul(L, RSub(hi, lo))]
       /\ RLe(sqrtPrice, lo)
            => held = [x |-> RMul(L, RSub(RDiv(One, lo), RDiv(One, hi))), y |-> Zero]
       /\ (last.op \in Trades /\ id \in DOMAIN last.pre.positions)
            => /\ (RLe(hi, last.pre.sqrtPrice) /\ RLe(last.pre.sqrtPrice, sqrtPrice))
                    => held = was
               /\ (RLe(last.pre.sqrtPrice, lo) /\ RLe(sqrtPrice, last.pre.sqrtPrice))
                    => held = was

\* a first call has stopped exactly on the upper boundary of a position that
\* provides liquidity, and a second one has moved the price further up
C11_Witness ==
  /\ nTrades = 2 /\ last.op \in Trades /\ Ok
  /\ \E id \in DOMAIN positions :
       /\ positions[id].liquidity # Zero
       /\ id \in DOMAIN last.pre.positions
       /\ last.pre.sqrtPrice = positions[id].sqrtRange[2]
       /\ RLt(last.pre.sqrtPrice, sqrtPrice)
       /\ balance(positions[id], sqrtPrice).x = Zero
       /\ balance(positions[id], sqrtPrice).y # Zero

\* C12: whenever movePrice(t) returns, sqrtPrice is sqrt(t), however many
\* segments the walk took; and when sqrtPrice was sqrt(t) already, it
\* returns the delta {x: 0, y: 0} and changes neither the price nor any
\* position, whether or not a position covers the price.
C12_MovePricePost ==
  (last.op = "movePrice" /\ Ok)
    => /\ sqrtPrice = Sqrt(last.arg)
       /\ RMul(sqrtPrice, sqrtPrice) = last.arg
       /\ last.pre.sqrtPrice = Sqrt(last.arg)
            => /\ last.ret = NoBalance
               /\ last.segs = <<>>
               /\ positions = last.pre.positions
               /\ sqrtPrice = last.pre.sqrtPrice

\* a movePrice has returned after walking across a range boundary
C12_Witness ==
  /\ last.op = "movePrice" /\ Ok
  /\ Len(last.segs) >= 2
  /\ last.segs[1].liquidity # last.segs[2].liquidity
  /\ sqrtPrice = Sqrt(last.arg)

\* the buy that the last movePrice amounts to, run on the pool as it was:
\* buyX of the X taken out by an upward move, buyY of the Y taken out by a
\* downward one
ImpliedBuy ==
  IF RLt(last.pre.sqrtPrice, sqrtPrice)
  THEN buyX(last.pre.sqrtPrice, last.pre.positions, feeRate, RNeg(last.ret.x))
  ELSE buyY(last.pre.sqrtPrice, last.pre.positions, feeRate, RNeg(last.ret.y))

\* the last movePrice, run on the pool as it was, by a pool that charges no fee
FeeFreeMove == movePrice(last.pre.sqrtPrice, last.pre.positions, Zero, last.arg)

NoLiquidity == {"OutOfRange", "NotEnoughLiquidity"}

\* C14: a trade or movePrice that fails for want of liquidity after it has
\* completed segments leaves the pool with the sqrtPrice at the end of the
\* last completed segment, which is a boundary of a position's range, and
\* with the rewards those segments credited; one that fails before it has
\* completed any segment leaves sqrtPrice and every position as they were.
C14_NoRollback ==
  (last.op \in Trades /\ last.err \in NoLiquidity)
    => IF last.segs = <<>>
       THEN sqrtPrice = last.pre.sqrtPrice /\ positions = last.pre.positions
       ELSE LET seg == last.segs[Len(last.segs)]
            IN /\ sqrtPrice = RAdd(seg.start, seg.dSqrtPrice)
               /\ sqrtPrice # last.pre.sqrtPrice
               /\ \E id \in DOMAIN last.pre.positions :
                    sqrtPrice \in {last.pre.positions[id].sqrtRange[1],
                                   last.pre.positions[id].sqrtRange[2]}
               /\ positions = seg.after
               /\ \A token \in {"x", "y"} :
                    Credited(token) =
                      RSum([i \in 1..Len(last.segs) |->
                              IF last.segs[i].token = token THEN last.segs[i].fee ELSE Zero],
                           1..Len(last.segs))

\* a call has failed for want of liquidity after two segments that moved
\* the price and credited fees
C14_Witness ==
  /\ last.op \in Trades /\ last.err \in NoLiquidity
  /\ Len(last.segs) >= 2
  /\ sqrtPrice # last.pre.sqrtPrice
  /\ \E token \in {"x", "y"} : Credited(token) # Zero

\* C15: with feeRate in [0, 1), a position enters with rewards (0, 0), no
\* call lowers the rewards.x or rewards.y of a live position, and the fee
\* credited by every segment of sellX, sellY, buyX, buyY and movePrice is
\* >= 0.
C15_RewardsMonotone ==
  /\ RLe(Zero, feeRate) /\ RLt(feeRate, One)
  /\ \A id \in DOMAIN positions :
       IF id \in DOMAIN last.pre.positions
       THEN /\ RLe(last.pre.positions[id].rewards.x, positions[id].rewards.x)
            /\ RLe(last.pre.positions[id].rewards.y, positions[id].rewards.y)
       ELSE positions[id].rewards = NoBalance
  /\ \A i \in 1..Len(last.segs) : RLe(Zero, last.segs[i].fee)

\* C16: sellY, buyY, sellX and buyX called with an amount <= 0 raise the
\* error of an invalid amount before they do anything: no segment is
\* walked, and sqrtPrice, the set of positions and every position's rewards
\* are as they were.
C16_NonPositiveAmount ==
  (last.op \in Sells \cup Buys /\ RLe(last.arg, Zero))
    => /\ last.err = "NegativeAmount"
       /\ last.segs = <<>>
       /\ sqrtPrice = last.pre.sqrtPrice
       /\ positions = last.pre.positions

\* a buy of the amount 0 has been refused by a pool that has liquidity at
\* the price
C16_Witness ==
  /\ last.op = "buyX" /\ last.arg = Zero
  /\ last.err = "NegativeAmount"
  /\ getLiquidityInCurrentRange(positions, sqrtPrice, UP) # Zero

\* a range in price space that the design calls valid: 0 < lo < hi
ValidRange(range) == RLt(Zero, range[1]) /\ RLt(range[1], range[2])

\* C17: enterPosition with a range whose lower bound is <= 0, or whose
\* bounds are equal or inverted, fails with the InvalidArgument error and
\* registers no position; so every live position has 0 < lo < hi.
C17_InvalidRange ==
  /\ (last.op = "enterPosition" /\ ~ValidRange(last.arg[1]))
       => /\ last.err = "InvalidArgument"
          /\ positions = last.pre.positions
  /\ \A id \in DOMAIN positions :
       /\ RLt(Zero, positions[id].sqrtRange[1])
       /\ RLt(positions[id].sqrtRange[1], positions[id].sqrtRange[2])

\* C18: the delta returned by a movePrice that moved the price is negative
\* in the token paid into the pool and positive in the token received from
\* it: delta.y <= 0 and delta.x >= 0 for a move up (Y is paid, X is taken
\* out), delta.x <= 0 and delta.y >= 0 for a move down.
C18_DeltaSigns ==
  (last.op = "movePrice" /\ Ok /\ sqrtPrice # last.pre.sqrtPrice)
    => IF RLt(last.pre.sqrtPrice, sqrtPrice)
       THEN RLe(last.ret.y, Zero) /\ RLe(Zero, last.ret.x)
       ELSE RLe(last.ret.x, Zero) /\ RLe(Zero, last.ret.y)

\* C19: sellY and buyX of a positive amount never lower sqrtPrice, sellX
\* and buyY never raise it, every segment ends inside the range that was
\* current when it started, and sqrtPrice is strictly positive in every
\* reachable state, whatever the amounts asked for.
C19_PriceDirection ==
  /\ RLt(Zero, sqrtPrice)
  /\ last.op \in {"sellY", "buyX"} => RLe(last.pre.sqrtPrice, sqrtPrice)
  /\ last.op \in {"sellX", "buyY"} => RLe(sqrtPrice, last.pre.sqrtPrice)
  /\ last.op \in Sells \cup Buys
       => \A i \in 1..Len(last.segs) :
            LET seg == last.segs[i]
                cr == getCurrentRange(seg.before, seg.start, seg.dir)
                end == RAdd(seg.start, seg.dSqrtPrice)
            IN /\ cr.err = "none"
               /\ RLe(cr.range[1], end) /\ RLe(end, cr.range[2])
               /\ IF seg.dir = UP THEN RLe(seg.start, end) ELSE RLe(end, seg.start)

\* the range boundaries of the positions that lie between two prices
BoundariesBetween(pos, p, q) ==
  {b \in UNION {{pos[id].sqrtRange[1], pos[id].sqrtRange[2]} : id \in DOMAIN pos} :
     RLe(RMin(p, q), b) /\ RLe(b, RMax(p, q))}

\* the direction in which a call is to move the price
DirectionOf(call) ==
  IF call.op \in {"sellY", "buyX"} THEN UP
  ELSE IF call.op \in {"sellX", "buyY"} THEN DOWN
  ELSE IF RLt(call.pre.sqrtPrice, Sqrt(call.arg)) THEN UP ELSE DOWN

\* C20: on a pool whose positions all have positive liquidity, every call
\* of sellY, sellX, buyY, buyX or movePrice ends, by returning or by
\* throwing; every iteration of its loop moves sqrtPrice strictly in the
\* direction of the trade, and either uses up what remained or stops on a
\* boundary of the range that was current; so the iterations number at
\* most the distinct range boundaries between the start and the end price,
\* plus one.
C20_Termination ==
  (/\ last.op \in Trades
   /\ \A id \in DOMAIN last.pre.positions :
        RLt(Zero, last.pre.positions[id].liquidity))
    => /\ last.err # "Unfinished"
       /\ Len(last.segs) <=
            Cardinality(BoundariesBetween(last.pre.positions, last.pre.sqrtPrice,
                                          sqrtPrice)) + 1
       /\ \A i \in 1..Len(last.segs) :
            LET seg == last.segs[i]
                cr == getCurrentRange(seg.before, seg.start, seg.dir)
                end == RAdd(seg.start, seg.dSqrtPrice)
            IN /\ seg.dir = DirectionOf(last)
               /\ IF seg.dir = UP THEN RLt(seg.start, end) ELSE RLt(end, seg.start)
               /\ \/ i = Len(last.segs) /\ Ok
                  \/ end = IF seg.dir = UP THEN cr.range[2] ELSE cr.range[1]

\* what a step that is a trading call may change: the set of positions, and
\* each position's liquidity and sqrtRange, stay as they are, the feeRate
\* too, and so do the rewards in the token that is not the call's fee token
\* (the fee token is y for sellY, buyX and a move up, x for sellX, buyY and
\* a move down)
TradeFrame ==
  /\ feeRate' = feeRate
  /\ DOMAIN positions' = DOMAIN positions
  /\ \A id \in DOMAIN positions :
       LET other == IF DirectionOf(last') = UP THEN "x" ELSE "y"
       IN /\ positions'[id].liquidity = positions[id].liquidity
          /\ positions'[id].sqrtRange = positions[id].sqrtRange
          /\ positions'[id].rewards[other] = positions[id].rewards[other]

\* C21: sellX, sellY, buyX, buyY and movePrice never add or remove a
\* position and never change a position's id, liquidity or sqrtRange, nor
\* the feeRate; they change only sqrtPrice and the rewards in the call's fee
\* token; getPosition, getPositionsInRange, getLiquidityInCurrentRange and
\* getCurrentRange change nothing.
C21_Frame ==
  [][/\ last'.op \in Trades => TradeFrame
     /\ last'.op \in Queries => UNCHANGED <<sqrtPrice, feeRate, positions>>]_vars

\* a call has moved the price and credited its fee to a position that holds
\* rewards in the other token from an earlier call
C21_Witness ==
  /\ last.op \in Trades /\ Ok
  /\ sqrtPrice # last.pre.sqrtPrice
  /\ \E id \in DOMAIN positions :
       LET fee == IF DirectionOf(last) = UP THEN "y" ELSE "x"
           other == IF DirectionOf(last) = UP THEN "x" ELSE "y"
       IN /\ positions[id].rewards[fee] # last.pre.positions[id].rewards[fee]
          /\ positions[id].rewards[other] # Zero

====
